---- MODULE Spec2Model ----
(***************************************************************************)
(* Model of python/vyos/configtree.py: the ConfigTree binding, show_diff,  *)
(* union and DiffTree, over a model of the tree engine (libvyosconfig)     *)
(* that the binding calls through ctypes.                                  *)
(*                                                                         *)
(* A tree is a function from the paths of its nodes (sequences of names,   *)
(* <<>> being the root) to [vals, tag, kids]: the node's ordered values,   *)
(* its tag flag and the ordered names of its children.                     *)
(***************************************************************************)
EXTENDS Integers, Sequences, FiniteSets, TLC

VARIABLES tree, last, steps, heap, objs, treeL, treeR, dt

vars == <<tree, last, steps, heap, objs, treeL, treeR, dt>>

\* ---------------------------------------------------------------- bounds
MaxDepth == 2
MaxSteps == 2

Names == {"a", "b"}
Values == {"v1", "v2"}
None == "None"

\* A path component is a Python string: a sequence of whitespace-free words.
\* An identifier is one word; "a b" is a string holding a blank.
Ident(n) == <<n>>
Components == {Ident(n) : n \in Names} \cup {<<"a", "b">>}

\* A path argument: a Python list of components, or something that is no list.
List(items) == [islist |-> TRUE, items |-> items]
NotAList == [islist |-> FALSE, items |-> <<>>]

\* ------------------------------------------------------- sequence helpers
Front(p) == SubSeq(p, 1, Len(p) - 1)
Last(p) == p[Len(p)]
IsPrefix(p, q) == Len(p) <= Len(q) /\ SubSeq(q, 1, Len(p)) = p
Suffix(q, n) == SubSeq(q, n + 1, Len(q))
Range(s) == {s[i] : i \in 1..Len(s)}

RECURSIVE RemoveFirst(_, _)
RemoveFirst(s, x) ==
    IF s = <<>> THEN <<>>
    ELSE IF Head(s) = x THEN Tail(s)
    ELSE <<Head(s)>> \o RemoveFirst(Tail(s), x)

\* " ".join(map(str, path)): the components separated by blanks; the engine
\* reads the string back as the sequence of its whitespace-separated words.
RECURSIVE PathStr(_)
PathStr(items) ==
    IF items = <<>> THEN <<>> ELSE Head(items) \o PathStr(Tail(items))

\* ------------------------------------------------------------ engine trees
NewNode == [vals |-> <<>>, tag |-> FALSE, kids |-> <<>>]
EmptyTree == (<<>> :> NewNode)

Resolves(t, p) == p \in DOMAIN t
Depth(t) == CHOOSE d \in 0..(2 * MaxDepth) :
               /\ \E p \in DOMAIN t : Len(p) = d
               /\ \A p \in DOMAIN t : Len(p) <= d
InBounds(t) == Depth(t) <= MaxDepth

InsertNode(t, p) ==
    [q \in DOMAIN t \cup {p} |->
        IF q = p THEN NewNode
        ELSE IF q = Front(p) THEN [t[q] EXCEPT !.kids = Append(@, Last(p))]
        ELSE t[q]]

RECURSIVE EnsurePath(_, _)
EnsurePath(t, p) ==
    IF p \in DOMAIN t THEN t ELSE InsertNode(EnsurePath(t, Front(p)), p)

RemoveSubtree(t, p) ==
    [q \in {x \in DOMAIN t : ~IsPrefix(p, x)} |->
        IF q = Front(p)
        THEN [t[q] EXCEPT !.kids = SelectSeq(@, LAMBDA k : k # Last(p))]
        ELSE t[q]]

\* The nodes of t at and below p, re-rooted: under <<Last(p)>> (with_node) or
\* as the children of the new root.
get_subtree_copy(t, p, with_node) ==
    LET keep == IF with_node THEN Len(p) - 1 ELSE Len(p)
        below == {q \in DOMAIN t : IsPrefix(p, q)}
    IN [q \in {Suffix(x, keep) : x \in below} \cup {<<>>} |->
           IF q = <<>>
           THEN IF with_node
                THEN [NewNode EXCEPT !.kids = <<Last(p)>>]
                ELSE [NewNode EXCEPT !.kids = t[p].kids]
           ELSE t[SubSeq(p, 1, keep) \o q]]

\* ------------------------------------------------------ engine operations
\* Each mutating engine function returns the tree it leaves and its status
\* (0 = success). A path of no words is rejected by every one of them.
Res(t, st) == [t |-> t, st |-> st]

lib_set_valueless(t, p) ==
    IF p = <<>> THEN Res(t, 1)
    ELSE Res([EnsurePath(t, p) EXCEPT ![p].vals = <<>>], 0)

lib_set_replace_value(t, p, v) ==
    IF p = <<>> THEN Res(t, 1)
    ELSE Res([EnsurePath(t, p) EXCEPT ![p].vals = <<v>>], 0)

lib_set_add_value(t, p, v) ==
    IF p = <<>> THEN Res(t, 1)
    ELSE Res([EnsurePath(t, p) EXCEPT ![p].vals = Append(@, v)], 0)

lib_delete_node(t, p) ==
    IF p = <<>> THEN Res(t, 1)
    ELSE IF ~Resolves(t, p) THEN Res(t, 0)
    ELSE Res(RemoveSubtree(t, p), 0)

\* miss: the status the engine gives when the node holds no such value.
lib_delete_value(t, p, v, miss) ==
    IF p = <<>> \/ ~Resolves(t, p) THEN Res(t, 1)
    ELSE IF v \notin Range(t[p].vals) THEN Res(t, miss)
    ELSE Res([t EXCEPT ![p].vals = RemoveFirst(@, v)], 0)

lib_rename_node(t, p, new) ==
    IF p = <<>> \/ ~Resolves(t, p) THEN Res(t, 1)
    ELSE IF Resolves(t, Append(Front(p), new)) THEN Res(t, 1)
    ELSE LET np == Append(Front(p), new)
             moved == {q \in DOMAIN t : IsPrefix(p, q)}
             dom == (DOMAIN t \ moved) \cup {np \o Suffix(q, Len(p)) : q \in moved}
         IN Res([q \in dom |->
                   IF IsPrefix(np, q) THEN t[p \o Suffix(q, Len(p))]
                   ELSE IF q = Front(p)
                   THEN [t[q] EXCEPT !.kids =
                           [i \in 1..Len(@) |-> IF @[i] = Last(p) THEN new ELSE @[i]]]
                   ELSE t[q]], 0)

lib_copy_node(t, old, new) ==
    IF old = <<>> \/ new = <<>> \/ ~Resolves(t, old) THEN Res(t, 1)
    ELSE IF Resolves(t, new) THEN Res(t, 1)
    ELSE LET t1 == EnsurePath(t, Front(new))
             src == {q \in DOMAIN t : IsPrefix(old, q)}
             dom == DOMAIN t1 \cup {new \o Suffix(q, Len(old)) : q \in src}
         IN Res([q \in dom |->
                   IF IsPrefix(new, q) THEN t[old \o Suffix(q, Len(new))]
                   ELSE IF q = Front(new)
                   THEN [t1[q] EXCEPT !.kids = Append(@, Last(new))]
                   ELSE t1[q]], 0)

lib_exists(t, p) == IF p # <<>> /\ Resolves(t, p) THEN 1 ELSE 0

\* The JSON the engine answers with: null, or a value.
JsonNull == [null |-> TRUE, val |-> <<>>]
Json(v) == [null |-> FALSE, val |-> v]

lib_list_nodes(t, p) ==
    IF p = <<>> \/ ~Resolves(t, p) THEN JsonNull ELSE Json(t[p].kids)

lib_return_value(t, p) ==
    IF p = <<>> \/ ~Resolves(t, p) THEN JsonNull
    ELSE IF t[p].vals = <<>> THEN JsonNull
    ELSE Json(Head(t[p].vals))

lib_return_values(t, p) ==
    IF p = <<>> \/ ~Resolves(t, p) THEN JsonNull
    ELSE IF t[p].vals = <<>> THEN JsonNull
    ELSE Json(t[p].vals)

lib_is_tag(t, p) ==
    IF p # <<>> /\ Resolves(t, Front(p)) /\ t[Front(p)].tag THEN 1 ELSE 0

lib_set_tag(t, p) ==
    IF p = <<>> \/ ~Resolves(t, p) THEN Res(t, 1)
    ELSE Res([t EXCEPT ![p].tag = TRUE], 0)

\* A null address, or a newly built tree.
Null == [null |-> TRUE, t |-> EmptyTree]
Built(t) == [null |-> FALSE, t |-> t]

lib_get_subtree(t, p, with_node) ==
    IF p = <<>> \/ ~Resolves(t, p) THEN Null
    ELSE Built(get_subtree_copy(t, p, with_node))

\* A config text, read as its leaf statements in order: each names a path and
\* a value; lines of the same path accumulate as the values of one node.
Stmt(p, v) == [path |-> p, value |-> v]

RECURSIVE from_string(_)
from_string(config) ==
    IF config = <<>> THEN EmptyTree
    ELSE LET st == config[Len(config)]
         IN lib_set_add_value(from_string(Front(config)), st.path, st.value).t

\* ------------------------------------------------ the binding: ConfigTree
\* What a call comes to: the tree it leaves, the exception it raises ("ok"
\* for none) with the kind of its message, the value it returns, the status
\* the engine returned (-1 when the engine was not called).
Raise(t, err, msg, st) ==
    [t |-> t, err |-> err, msg |-> msg, ret |-> None, st |-> st]
Return(t, ret, st) ==
    [t |-> t, err |-> "ok", msg |-> "", ret |-> ret, st |-> st]

check_path(path) == IF ~path.islist THEN "TypeError" ELSE "ok"

set_swapped(t, path, value, replace) ==
    IF check_path(path) # "ok" THEN Raise(t, "TypeError", "expected-list", -1)
    ELSE LET path_str == PathStr(path.items)
             r == IF value = None THEN lib_set_valueless(t, path_str)
                  ELSE IF replace THEN lib_set_add_value(t, path_str, value)
                  ELSE lib_set_replace_value(t, path_str, value)
         IN Return(r.t, None, r.st)

set(t, path, value, replace) ==
    IF check_path(path) # "ok" THEN Raise(t, "TypeError", "expected-list", -1)
    ELSE LET path_str == PathStr(path.items)
             r == IF value = None THEN lib_set_valueless(t, path_str)
                  ELSE IF replace THEN lib_set_replace_value(t, path_str, value)
                  ELSE lib_set_add_value(t, path_str, value)
         IN Return(r.t, None, r.st)

delete(t, path) ==
    IF check_path(path) # "ok" THEN Raise(t, "TypeError", "expected-list", -1)
    ELSE LET r == lib_delete_node(t, PathStr(path.items))
         IN Return(r.t, None, r.st)

delete_value(t, path, value, miss) ==
    IF check_path(path) # "ok" THEN Raise(t, "TypeError", "expected-list", -1)
    ELSE LET r == lib_delete_value(t, PathStr(path.items), value, miss)
         IN Return(r.t, None, r.st)

exists(t, path) ==
    IF check_path(path) # "ok" THEN Raise(t, "TypeError", "expected-list", -1)
    ELSE LET res == lib_exists(t, PathStr(path.items))
         IN IF res = 0 THEN Return(t, FALSE, res) ELSE Return(t, TRUE, res)

rename_unguarded(t, path, new_name) ==
    IF check_path(path) # "ok" THEN Raise(t, "TypeError", "expected-list", -1)
    ELSE LET r == lib_rename_node(t, PathStr(path.items), new_name)
         IN IF r.st # 0
            THEN Raise(r.t, "ConfigTreeError", "doesnt-exist", r.st)
            ELSE Return(r.t, None, r.st)

rename(t, path, new_name) ==
    IF check_path(path) # "ok" THEN Raise(t, "TypeError", "expected-list", -1)
    ELSE LET path_str == PathStr(path.items)
             new_path == List(Front(path.items) \o <<Ident(new_name)>>)
         IN IF exists(t, new_path).ret = TRUE
            THEN Raise(t, "ConfigTreeError", "", -1)
            ELSE LET r == lib_rename_node(t, path_str, new_name)
                 IN IF r.st # 0
                    THEN Raise(r.t, "ConfigTreeError", "doesnt-exist", r.st)
                    ELSE Return(r.t, None, r.st)

copy_unguarded(t, old_path, new_path) ==
    IF check_path(old_path) # "ok" \/ check_path(new_path) # "ok"
    THEN Raise(t, "TypeError", "expected-list", -1)
    ELSE LET r == lib_copy_node(t, PathStr(old_path.items), PathStr(new_path.items))
         IN IF r.st # 0
            THEN Raise(r.t, "ConfigTreeError", "engine", r.st)
            ELSE Return(r.t, None, r.st)

copy(t, old_path, new_path) ==
    IF check_path(old_path) # "ok" \/ check_path(new_path) # "ok"
    THEN Raise(t, "TypeError", "expected-list", -1)
    ELSE IF exists(t, new_path).ret = TRUE
    THEN Raise(t, "ConfigTreeError", "", -1)
    ELSE LET r == lib_copy_node(t, PathStr(old_path.items), PathStr(new_path.items))
         IN IF r.st # 0
            THEN Raise(r.t, "ConfigTreeError", "engine", r.st)
            ELSE Return(r.t, None, r.st)

JsonCall(t, path, res) ==
    IF res.null THEN Raise(t, "ConfigTreeError", "doesnt-exist", 0)
    ELSE Return(t, res.val, 0)

list_nodes(t, path) ==
    IF check_path(path) # "ok" THEN Raise(t, "TypeError", "expected-list", -1)
    ELSE JsonCall(t, path, lib_list_nodes(t, PathStr(path.items)))

return_value(t, path) ==
    IF check_path(path) # "ok" THEN Raise(t, "TypeError", "expected-list", -1)
    ELSE JsonCall(t, path, lib_return_value(t, PathStr(path.items)))

return_values(t, path) ==
    IF check_path(path) # "ok" THEN Raise(t, "TypeError", "expected-list", -1)
    ELSE JsonCall(t, path, lib_return_values(t, PathStr(path.items)))

is_tag_strict(t, path) ==
    IF check_path(path) # "ok" THEN Raise(t, "TypeError", "expected-list", -1)
    ELSE LET res == lib_is_tag(t, PathStr(path.items))
         IN IF res > 1 THEN Return(t, TRUE, res) ELSE Return(t, FALSE, res)

is_tag(t, path) ==
    IF check_path(path) # "ok" THEN Raise(t, "TypeError", "expected-list", -1)
    ELSE LET res == lib_is_tag(t, PathStr(path.items))
         IN IF res >= 1 THEN Return(t, TRUE, res) ELSE Return(t, FALSE, res)

set_tag(t, path) ==
    IF check_path(path) # "ok" THEN Raise(t, "TypeError", "expected-list", -1)
    ELSE LET r == lib_set_tag(t, PathStr(path.items))
         IN IF r.st = 0 THEN Return(r.t, TRUE, r.st)
            ELSE Raise(r.t, "ConfigTreeError", "doesnt-exist", r.st)

\* ConfigTree(address=res): a null address raises TypeError (neither a
\* config string nor an address), otherwise the new object holds the tree.
get_subtree(t, path, with_node) ==
    IF check_path(path) # "ok" THEN Raise(t, "TypeError", "expected-list", -1)
    ELSE LET res == lib_get_subtree(t, PathStr(path.items), with_node)
         IN IF res.null THEN Raise(t, "TypeError", "requires-one-of", 0)
            ELSE Return(t, res.t, 0)

\* ------------------------------------------------- engine: diff and union
Closure(core) ==
    UNION {{SubSeq(q, 1, k) : k \in 0..Len(q)} : q \in core} \cup {<<>>}

\* A result tree of a diff: the nodes of `core` with the values they have in
\* src, and the nodes above them recreated valueless; the tag flags and the
\* order of the children are those of src.
Branch(src, core) ==
    LET dom == Closure(core)
    IN [q \in dom |->
          [vals |-> IF q \in core THEN src[q].vals ELSE <<>>,
           tag |-> src[q].tag,
           kids |-> SelectSeq(src[q].kids, LAMBDA k : Append(q, k) \in dom)]]

\* The nodes at and below q are the same in l and r.
Identical(l, r, q) ==
    \A x \in {y \in DOMAIN l \cup DOMAIN r : IsPrefix(q, y)} :
        /\ x \in DOMAIN l /\ x \in DOMAIN r
        /\ l[x].vals = r[x].vals
        /\ l[x].tag = r[x].tag

Added(l, r) ==
    Branch(r, {q \in DOMAIN r \ {<<>>} :
                  q \notin DOMAIN l \/ l[q].vals # r[q].vals})
Removed(l, r) ==
    Branch(l, {q \in DOMAIN l \ {<<>>} :
                  q \notin DOMAIN r \/ l[q].vals # r[q].vals})
Common(l, r) ==
    Branch(l, {q \in (DOMAIN l \cap DOMAIN r) \ {<<>>} : Identical(l, r, q)})

\* The tree whose children add, sub and inter hold the three results.
Graft(add, sub, inter) ==
    LET under(n, b) == {<<n>> \o q : q \in DOMAIN b}
        dom == {<<>>} \cup under("add", add) \cup under("sub", sub)
                      \cup under("inter", inter)
    IN [q \in dom |->
          IF q = <<>> THEN [NewNode EXCEPT !.kids = <<"add", "sub", "inter">>]
          ELSE IF Head(q) = "add" THEN add[Tail(q)]
          ELSE IF Head(q) = "sub" THEN sub[Tail(q)]
          ELSE inter[Tail(q)]]

\* The part of t a diff restricted to p compares.
Restrict(t, p) ==
    IF p = <<>> THEN t
    ELSE IF Resolves(t, p) THEN get_subtree_copy(t, p, TRUE)
    ELSE EmptyTree

lib_diff_tree(p, l, r) ==
    IF p # <<>> /\ ~Resolves(l, p) /\ ~Resolves(r, p) THEN Null
    ELSE LET l1 == Restrict(l, p)
             r1 == Restrict(r, p)
         IN Built(Graft(Added(l1, r1), Removed(l1, r1), Common(l1, r1)))

\* The nodes of sub down to the first one that the reference tree lacks:
\* what is below a node that disappears needs no deletion of its own.
lib_trim_tree(sub, ref) ==
    LET dom == {q \in DOMAIN sub :
                  \A k \in 0..(Len(q) - 1) : SubSeq(q, 1, k) \in DOMAIN ref}
    IN [q \in dom |->
          [sub[q] EXCEPT !.kids = SelectSeq(@, LAMBDA c : Append(q, c) \in dom)]]

RECURSIVE MergeKids(_, _)
MergeKids(a, b) ==
    IF b = <<>> THEN a
    ELSE IF Head(b) \in Range(a) THEN MergeKids(a, Tail(b))
    ELSE MergeKids(Append(a, Head(b)), Tail(b))

lib_tree_union(l, r) ==
    [q \in DOMAIN l \cup DOMAIN r |->
        IF q \notin DOMAIN r THEN l[q]
        ELSE IF q \notin DOMAIN l THEN r[q]
        ELSE [vals |-> l[q].vals \o r[q].vals,
              tag |-> l[q].tag \/ r[q].tag,
              kids |-> MergeKids(l[q].kids, r[q].kids)]]

\* A command line; a text is the sequence of its lines, the empty text being
\* one blank line.
Line(op, p, v) == [op |-> op, path |-> p, value |-> v]
BlankLine == Line("", <<>>, None)

RECURSIVE CommandsAt(_, _, _)
RECURSIVE CommandsOf(_, _, _, _)
CommandsAt(t, p, op) ==
    IF t[p].kids # <<>> THEN CommandsOf(t, p, t[p].kids, op)
    ELSE IF p = <<>> THEN <<>>
    ELSE IF op = "delete" \/ t[p].vals = <<>> THEN <<Line(op, p, None)>>
    ELSE [i \in 1..Len(t[p].vals) |-> Line(op, p, t[p].vals[i])]
CommandsOf(t, p, kids, op) ==
    IF kids = <<>> THEN <<>>
    ELSE CommandsAt(t, Append(p, Head(kids)), op)
            \o CommandsOf(t, p, Tail(kids), op)

lib_to_commands(t, op) ==
    IF CommandsAt(t, <<>>, op) = <<>> THEN <<BlankLine>>
    ELSE CommandsAt(t, <<>>, op)

\* show_diff answers "#1@" when it fails: here a text of no lines at all.
ErrorText == <<>>
lib_show_diff(commands, p, l, r) ==
    LET res == lib_diff_tree(p, l, r)
        add == get_subtree_copy(res.t, <<"add">>, FALSE)
        sub == get_subtree_copy(res.t, <<"sub">>, FALSE)
    IN IF res.null THEN ErrorText
       ELSE IF commands
       THEN lib_to_commands(lib_trim_tree(sub, Restrict(r, p)), "delete")
               \o lib_to_commands(add, "set")
       ELSE <<Line("diff", p, res.t)>>

\* ------------------------------- the binding: show_diff, union, DiffTree
\* A tree argument: a ConfigTree object, or None.
Obj(t) == [none |-> FALSE, t |-> t]
NoObj == [none |-> TRUE, t |-> EmptyTree]
\* `if left is None: left = ConfigTree(config_string='\n')`
OrEmpty(o) == IF o.none THEN from_string(<<>>) ELSE o.t

to_commands(t, op) == lib_to_commands(t, op)

show_diff_both(left, right, path, commands) ==
    LET l == OrEmpty(left)
        r == OrEmpty(right)
    IN IF check_path(path) # "ok"
       THEN Raise(l, "TypeError", "expected-list", -1)
       ELSE IF /\ path.items # <<>>
               /\ (exists(l, path).ret = FALSE \/ exists(r, path).ret = FALSE)
       THEN Raise(l, "ConfigTreeError", "doesnt-exist", -1)
       ELSE LET res == lib_show_diff(commands, PathStr(path.items), l, r)
            IN IF res = ErrorText THEN Raise(l, "ConfigTreeError", "engine", 1)
               ELSE Return(l, res, 0)

\* A path that is no list raises TypeError either in exists (when it is
\* truthy) or in check_path (when it is not).
show_diff(left, right, path, commands) ==
    LET l == OrEmpty(left)
        r == OrEmpty(right)
    IN IF check_path(path) # "ok"
       THEN Raise(l, "TypeError", "expected-list", -1)
       ELSE IF /\ path.items # <<>>
               /\ exists(l, path).ret = FALSE
               /\ exists(r, path).ret = FALSE
       THEN Raise(l, "ConfigTreeError", "doesnt-exist", -1)
       ELSE LET res == lib_show_diff(commands, PathStr(path.items), l, r)
            IN IF res = ErrorText THEN Raise(l, "ConfigTreeError", "engine", 1)
               ELSE Return(l, res, 0)

union(left, right) == lib_tree_union(OrEmpty(left), OrEmpty(right))

\* The DiffTree object; NoDiffTree when none has been constructed.
NoDiffTree == [made |-> FALSE]

Sub(name) == List(<<Ident(name)>>)

DiffTree_branches_swapped(full) ==
    [add |-> get_subtree(full, Sub("inter"), FALSE).ret,
     sub |-> get_subtree(full, Sub("sub"), FALSE).ret,
     inter |-> get_subtree(full, Sub("add"), FALSE).ret]

\* self.add, self.sub, self.inter
DiffTree_branches(full) ==
    [add |-> get_subtree(full, Sub("add"), FALSE).ret,
     sub |-> get_subtree(full, Sub("sub"), FALSE).ret,
     inter |-> get_subtree(full, Sub("inter"), FALSE).ret]

\* DiffTree.__init__: the exception it raises and the object it builds.
DiffTree_init(left, right, path) ==
    LET l == OrEmpty(left)
        r == OrEmpty(right)
        fail(err, msg) == [err |-> err, msg |-> msg, dt |-> NoDiffTree]
    IN IF check_path(path) # "ok" THEN fail("TypeError", "expected-list")
       ELSE IF path.items # <<>> /\ exists(l, path).ret = FALSE
       THEN fail("ConfigTreeError", "doesnt-exist-lhs")
       ELSE IF path.items # <<>> /\ exists(r, path).ret = FALSE
       THEN fail("ConfigTreeError", "doesnt-exist-rhs")
       ELSE LET res == lib_diff_tree(PathStr(path.items), l, r)
                b == DiffTree_branches(res.t)
                ref == IF path.items # <<>>
                       THEN get_subtree(r, path, TRUE).ret
                       ELSE r
            IN IF res.null THEN fail("TypeError", "requires-one-of")
               ELSE [err |-> "ok", msg |-> "",
                     dt |-> [made |-> TRUE, left |-> l, right |-> r,
                             full |-> res.t, add |-> b.add, sub |-> b.sub,
                             inter |-> b.inter,
                             delete |-> lib_trim_tree(b.sub, ref)]]

DiffTree_to_commands_reversed(d) ==
    to_commands(d.add, "set") \o to_commands(d.delete, "delete")

\* delete + "\n" + add: the lines of delete, then the lines of add.
DiffTree_to_commands(d) ==
    to_commands(d.delete, "delete") \o to_commands(d.add, "set")

\* ------------------------------------------------------------- the inputs
ItemSeqs == {s \in UNION {[1..k -> Components] : k \in 0..MaxDepth} :
                Len(PathStr(s)) <= MaxDepth}
PyPaths == {List(s) : s \in ItemSeqs} \cup {NotAList}

\* The config strings a tree is constructed from:
\*   a { a v1 }        and        a { a v1
\*                                    b v2 }
ConfigStrings == {<<Stmt(<<"a", "a">>, "v1")>>,
                  <<Stmt(<<"a", "a">>, "v1"), Stmt(<<"a", "b">>, "v2")>>}

\* ConfigTree(config_string): the tree the engine parses
ConfigTree(config_string) == from_string(config_string)

\* ------------------------------------ Spec: one ConfigTree and its methods
NoCall == [op |-> "init", path |-> NotAList, arg |-> None, flag |-> FALSE,
           pre |-> EmptyTree, err |-> "ok", msg |-> "", ret |-> None, st |-> -1]

\* A call runs to its end before the caller makes the next one: `last` is
\* the call that has just returned or raised, NoCall between two calls.
Call(op, path, arg, flag, out) ==
    /\ last = NoCall
    /\ steps < MaxSteps
    /\ InBounds(out.t)
    /\ tree' = out.t
    /\ last' = [op |-> op, path |-> path, arg |-> arg, flag |-> flag,
                pre |-> tree, err |-> out.err, msg |-> out.msg,
                ret |-> out.ret, st |-> out.st]
    /\ steps' = steps + 1
    /\ UNCHANGED <<heap, objs, treeL, treeR, dt>>

Init ==
    /\ \E config_string \in ConfigStrings : tree = ConfigTree(config_string)
    /\ last = NoCall
    /\ steps = 0
    /\ heap = <<>>
    /\ objs = <<>>
    /\ treeL = EmptyTree
    /\ treeR = EmptyTree
    /\ dt = None

Set ==
    \E path \in PyPaths, value \in Values \cup {None} :
      \E replace \in IF value = None THEN {TRUE} ELSE BOOLEAN :
        Call("set", path, value, replace, set(tree, path, value, replace))

Delete ==
    \E path \in PyPaths : Call("delete", path, None, FALSE, delete(tree, path))

DeleteValue ==
    \E path \in PyPaths, value \in Values, miss \in {0, 1} :
        Call("delete_value", path, value, FALSE,
             delete_value(tree, path, value, miss))

Rename ==
    \E path \in PyPaths, new_name \in Names :
        Call("rename", path, new_name, FALSE, rename(tree, path, new_name))

Copy ==
    \E old_path \in PyPaths, new_path \in PyPaths :
        Call("copy", old_path, new_path, FALSE, copy(tree, old_path, new_path))

Exists ==
    \E path \in PyPaths : Call("exists", path, None, FALSE, exists(tree, path))

ListNodes ==
    \E path \in PyPaths :
        Call("list_nodes", path, None, FALSE, list_nodes(tree, path))

ReturnValue ==
    \E path \in PyPaths :
        Call("return_value", path, None, FALSE, return_value(tree, path))

ReturnValues ==
    \E path \in PyPaths :
        Call("return_values", path, None, FALSE, return_values(tree, path))

IsTag ==
    \E path \in PyPaths : Call("is_tag", path, None, FALSE, is_tag(tree, path))

SetTag ==
    \E path \in PyPaths : Call("set_tag", path, None, FALSE, set_tag(tree, path))

GetSubtree ==
    \E path \in PyPaths, with_node \in BOOLEAN :
        Call("get_subtree", path, None, with_node,
             get_subtree(tree, path, with_node))

\* The caller has the outcome of the call and goes on.
Continue ==
    /\ last # NoCall
    /\ last' = NoCall
    /\ UNCHANGED <<tree, steps, heap, objs, treeL, treeR, dt>>

Next ==
    \/ Continue
    \/ Set
    \/ Delete
    \/ DeleteValue
    \/ Rename
    \/ Copy
    \/ Exists
    \/ ListNodes
    \/ ReturnValue
    \/ ReturnValues
    \/ IsTag
    \/ SetTag
    \/ GetSubtree

Spec == Init /\ [][Next]_vars

\* The same tree under fewer of its methods.
NextRename == Continue \/ Set \/ Delete \/ SetTag \/ Rename
SpecRename == Init /\ [][NextRename]_vars

NextCopy == Continue \/ Delete \/ SetTag \/ Copy
SpecCopy == Init /\ [][NextCopy]_vars

NextTag == Continue \/ Set \/ Delete \/ SetTag \/ IsTag
SpecTag == Init /\ [][NextTag]_vars

\* --------------------------- SpecDiff: two ConfigTrees and their DiffTree
\*   (empty)      a { b v1 }      a { b v2        a { a { b v1 }
\*                                    c w }           b v2 }
DiffConfigs ==
    {<<>>,
     <<Stmt(<<"a", "b">>, "v1")>>,
     <<Stmt(<<"a", "b">>, "v2"), Stmt(<<"a", "c">>, "w")>>,
     <<Stmt(<<"a", "a", "b">>, "v1"), Stmt(<<"a", "b">>, "v2")>>}

InitDiff ==
    /\ \E config_string \in DiffConfigs : treeL = ConfigTree(config_string)
    /\ \E config_string \in DiffConfigs : treeR = ConfigTree(config_string)
    /\ dt = NoDiffTree
    /\ last = NoCall
    /\ steps = 0
    /\ tree = EmptyTree
    /\ heap = <<>>
    /\ objs = <<>>

DiffCall(op, l, r, path, flag, out) ==
    /\ last = NoCall
    /\ steps < MaxSteps
    /\ last' = [op |-> op, path |-> path, arg |-> None, flag |-> flag,
                pre |-> EmptyTree, err |-> out.err, msg |-> out.msg,
                ret |-> out.ret, st |-> out.st, l |-> l, r |-> r]
    /\ steps' = steps + 1
    /\ UNCHANGED <<tree, heap, objs>>

LeftArgs == {Obj(treeL), NoObj}
RightArgs == {Obj(treeR), Obj(treeL), NoObj}

LeftSetTag ==
    \E path \in PyPaths :
        /\ DiffCall("set_tag", treeL, treeR, path, FALSE, set_tag(treeL, path))
        /\ treeL' = set_tag(treeL, path).t
        /\ UNCHANGED <<treeR, dt>>

RightSetTag ==
    \E path \in PyPaths :
        /\ DiffCall("set_tag", treeL, treeR, path, FALSE, set_tag(treeR, path))
        /\ treeR' = set_tag(treeR, path).t
        /\ UNCHANGED <<treeL, dt>>

ShowDiff ==
    \E l \in LeftArgs, r \in RightArgs, path \in PyPaths, commands \in BOOLEAN :
        /\ DiffCall("show_diff", OrEmpty(l), OrEmpty(r), path, commands,
                    show_diff(l, r, path, commands))
        /\ UNCHANGED <<treeL, treeR, dt>>

NewDiffTree ==
    \E l \in LeftArgs, r \in RightArgs, path \in PyPaths :
        LET new == DiffTree_init(l, r, path)
        IN /\ DiffCall("DiffTree", OrEmpty(l), OrEmpty(r), path, FALSE,
                       [err |-> new.err, msg |-> new.msg, ret |-> None,
                        st |-> -1])
           /\ dt' = IF new.err = "ok" THEN new.dt ELSE dt
           /\ UNCHANGED <<treeL, treeR>>

DiffToCommands ==
    /\ dt.made
    /\ DiffCall("to_commands", dt.left, dt.right, List(<<>>), FALSE,
                [err |-> "ok", msg |-> "", ret |-> DiffTree_to_commands(dt),
                 st |-> 0])
    /\ UNCHANGED <<treeL, treeR, dt>>

NextDiff ==
    \/ Continue
    \/ LeftSetTag
    \/ RightSetTag
    \/ ShowDiff
    \/ NewDiffTree
    \/ DiffToCommands

SpecDiff == InitDiff /\ [][NextDiff]_vars

\* ------------------- SpecOwn: ConfigTree objects and the trees they hold
\* The engine's trees live at addresses: heap[a] is the tree at address a
\* and how often destroy() was called on it. A ConfigTree object holds the
\* address of its tree (self.__config); objs[o].live is false once the
\* object is gone. S = [heap, objs] is the memory a call works on.
Cell(t) == [t |-> t, released |-> 0]
Mem(h, os) == [heap |-> h, objs |-> os]
TreeOf(S, o) == S.heap[S.objs[o].addr].t
Newest(S) == Len(S.objs)

\* ConfigTree(address=res), res the address of a tree the engine has built
Wrap(S, t) ==
    Mem(Append(S.heap, Cell(t)),
        Append(S.objs, [addr |-> Len(S.heap) + 1, live |-> TRUE]))

\* ConfigTree(address=a) on an address that another object holds already
WrapAddress(S, a) ==
    Mem(S.heap, Append(S.objs, [addr |-> a, live |-> TRUE]))

\* ConfigTree.__del__: destroy(self.__config)
Del(S, o) ==
    Mem([S.heap EXCEPT ![S.objs[o].addr].released = @ + 1],
        [S.objs EXCEPT ![o].live = FALSE])

\* A tree argument is an object, or 0 for None: `ConfigTree('\n')` then
\* makes the object the call works with.
WithArg(S, o) == IF o = 0 THEN Wrap(S, from_string(<<>>)) ELSE S
ArgOf(S, o) == IF o = 0 THEN Newest(WithArg(S, o)) ELSE o
\* The object made for a None argument goes when the last name for it does.
DropArg(S, o, made) == IF o = 0 THEN Del(S, made) ELSE S

own_get_subtree(S, o, path, with_node) ==
    LET out == get_subtree(TreeOf(S, o), path, with_node)
    IN IF out.err # "ok" THEN [S |-> S, err |-> out.err]
       ELSE [S |-> Wrap(S, out.ret), err |-> "ok"]

own_union(S, l, r) ==
    LET S1 == WithArg(S, l)
        lo == ArgOf(S, l)
        S2 == WithArg(S1, r)
        ro == ArgOf(S1, r)
        S3 == Wrap(S2, lib_tree_union(TreeOf(S2, lo), TreeOf(S2, ro)))
    IN [S |-> DropArg(DropArg(S3, l, lo), r, ro), err |-> "ok"]

DiffTree_ref_rewrapped(S, right, path) ==
    IF path.items # <<>>
    THEN [S |-> own_get_subtree(S, right, path, TRUE).S,
          ref |-> Newest(own_get_subtree(S, right, path, TRUE).S)]
    ELSE [S |-> WrapAddress(S, S.objs[right].addr),
          ref |-> Newest(WrapAddress(S, S.objs[right].addr))]

\* ref = self.right.get_subtree(path, with_node=True) if path else self.right
DiffTree_ref(S, right, path) ==
    IF path.items # <<>>
    THEN [S |-> own_get_subtree(S, right, path, TRUE).S,
          ref |-> Newest(own_get_subtree(S, right, path, TRUE).S)]
    ELSE [S |-> S, ref |-> right]

\* DiffTree.__init__ on objects: full, add, sub, inter and delete are new
\* objects; ref goes at the end of __init__ unless it is self.right.
own_DiffTree(S, l, r, path) ==
    LET S1 == WithArg(S, l)
        lo == ArgOf(S, l)
        S2 == WithArg(S1, r)
        ro == ArgOf(S1, r)
        new == DiffTree_init(Obj(TreeOf(S2, lo)), Obj(TreeOf(S2, ro)), path)
        S3 == Wrap(S2, new.dt.full)
        S4 == Wrap(S3, get_subtree(TreeOf(S3, Newest(S3)), Sub("add"), FALSE).ret)
        S5 == Wrap(S4, get_subtree(TreeOf(S3, Newest(S3)), Sub("sub"), FALSE).ret)
        S6 == Wrap(S5, get_subtree(TreeOf(S3, Newest(S3)), Sub("inter"), FALSE).ret)
        R == DiffTree_ref(S6, ro, path)
        S7 == Wrap(R.S, lib_trim_tree(TreeOf(R.S, Newest(S5)), TreeOf(R.S, R.ref)))
    IN IF new.err # "ok"
       THEN [S |-> DropArg(DropArg(S2, l, lo), r, ro), err |-> new.err]
       ELSE [S |-> IF R.ref # ro THEN Del(S7, R.ref) ELSE S7, err |-> "ok"]

\* A method of object o that changes its tree: the tree at o's address.
own_mutate(S, o, out) ==
    [S |-> Mem([S.heap EXCEPT ![S.objs[o].addr].t = out.t], S.objs),
     err |-> out.err]

OwnConfigs ==
    {<<Stmt(<<"a", "b">>, "v1")>>,
     <<Stmt(<<"a", "a", "b">>, "v1"), Stmt(<<"a", "b">>, "v2")>>}
OwnPaths == {List(<<Ident("a")>>), List(<<Ident("a"), Ident("b")>>),
             List(<<Ident("b")>>)}
DiffPaths == {List(<<>>), List(<<Ident("a")>>)}

InitOwn ==
    /\ \E c1 \in OwnConfigs, c2 \in OwnConfigs :
          /\ heap = <<Cell(ConfigTree(c1)), Cell(ConfigTree(c2))>>
          /\ objs = <<[addr |-> 1, live |-> TRUE], [addr |-> 2, live |-> TRUE]>>
    /\ last = NoCall
    /\ steps = 0
    /\ tree = EmptyTree
    /\ treeL = EmptyTree
    /\ treeR = EmptyTree
    /\ dt = NoDiffTree

Live == {o \in 1..Len(objs) : objs[o].live}

OwnCall(op, o, path, out) ==
    /\ last = NoCall
    /\ steps < MaxSteps
    /\ heap' = out.S.heap
    /\ objs' = out.S.objs
    /\ last' = [op |-> op, path |-> path, arg |-> None, flag |-> FALSE,
                pre |-> EmptyTree, err |-> out.err, msg |-> "", ret |-> None,
                st |-> -1, obj |-> o]
    /\ steps' = steps + 1
    /\ UNCHANGED <<tree, treeL, treeR, dt>>

OwnGetSubtree ==
    \E o \in Live, path \in OwnPaths, with_node \in BOOLEAN :
        OwnCall("get_subtree", o, path,
                own_get_subtree(Mem(heap, objs), o, path, with_node))

OwnUnion ==
    \E l \in (Live \cap {1, 2}) \cup {0}, r \in (Live \cap {1, 2}) \cup {0} :
        OwnCall("union", 0, List(<<>>), own_union(Mem(heap, objs), l, r))

OwnDiffTree ==
    \E l \in (Live \cap {1, 2}) \cup {0}, r \in (Live \cap {1, 2}) \cup {0},
       path \in DiffPaths :
        OwnCall("DiffTree", 0, path, own_DiffTree(Mem(heap, objs), l, r, path))

OwnSet ==
    \E o \in Live, path \in OwnPaths :
        OwnCall("set", o, path,
                own_mutate(Mem(heap, objs), o, set(heap[objs[o].addr].t, path, "v1", TRUE)))

OwnDelete ==
    \E o \in Live, path \in OwnPaths :
        OwnCall("delete", o, path,
                own_mutate(Mem(heap, objs), o, delete(heap[objs[o].addr].t, path)))

OwnSetTag ==
    \E o \in Live, path \in OwnPaths :
        OwnCall("set_tag", o, path,
                own_mutate(Mem(heap, objs), o, set_tag(heap[objs[o].addr].t, path)))

OwnDel ==
    \E o \in Live :
        OwnCall("del", o, List(<<>>), [S |-> Del(Mem(heap, objs), o), err |-> "ok"])

NextOwn ==
    \/ Continue
    \/ OwnGetSubtree
    \/ OwnUnion
    \/ OwnDiffTree
    \/ OwnSet
    \/ OwnDelete
    \/ OwnSetTag
    \/ OwnDel

SpecOwn == InitOwn /\ [][NextOwn]_vars

\* ------------------------------------------------------------ the claims
PathOps == {"set", "delete", "delete_value", "rename", "copy", "exists",
            "list_nodes", "return_value", "return_values", "is_tag",
            "set_tag", "get_subtree"}
Called == last.op \in PathOps
IdentPath(path) ==
    path.islist /\ \A i \in 1..Len(path.items) : Len(path.items[i]) = 1
EmptyPathGiven ==
    /\ Called
    /\ \/ last.path = List(<<>>)
       \/ last.op = "copy" /\ last.arg = List(<<>>)

\* C1: a call of a path-taking operation with the empty list as its path
\* raises the type/validation error before the engine is called and leaves
\* the tree as it was.
C1_EmptyPathRejected ==
    EmptyPathGiven =>
        /\ last.err = "TypeError"
        /\ last.st = -1
        /\ tree = last.pre

\* C2: a call of set, delete_value, rename, copy or set_tag for which the
\* engine returns a non-zero status raises an error to the caller.
C2_EngineFailureSurfaced ==
    /\ last.op \in {"set", "delete_value", "rename", "copy", "set_tag"}
    /\ last.st \notin {0, -1}
    => last.err # "ok"

\* The node at p1 of t1 and the node at p2 of t2 hold the same values, tag
\* flag and subtree.
SameNode(t1, p1, t2, p2) ==
    /\ t1[p1].vals = t2[p2].vals
    /\ t1[p1].tag = t2[p2].tag
    /\ get_subtree_copy(t1, p1, FALSE) = get_subtree_copy(t2, p2, FALSE)

LastPath == PathStr(last.path.items)
RenameCase ==
    last.op = "rename" /\ IdentPath(last.path) /\ last.path.items # <<>>
RenamedPath == Append(Front(LastPath), last.arg)
Conflict == last.err = "ConfigTreeError" /\ last.msg = ""
NotFound == last.err = "ConfigTreeError" /\ last.msg = "doesnt-exist"
RenameSuccess ==
    last.err = "ok" =>
        /\ Resolves(last.pre, LastPath)
        /\ Resolves(tree, RenamedPath)
        /\ SameNode(tree, RenamedPath, last.pre, LastPath)
        /\ ~Resolves(tree, LastPath)

\* C3 as stated: rename fails with ConflictError whenever a sibling named
\* new_name exists, fails with NotFoundError whenever the path does not
\* resolve, leaves the tree unmodified when it fails, and on success the node
\* is under new_name with its values and subtree, the old path gone.
C3_RenameAsStated ==
    RenameCase =>
        /\ Resolves(last.pre, RenamedPath) => Conflict
        /\ ~Resolves(last.pre, LastPath) => NotFound
        /\ last.err # "ok" => tree = last.pre
        /\ RenameSuccess

\* C3 amended: as C3, but NotFoundError is raised when the path does not
\* resolve and no node named new_name exists beside it; when both hold the
\* conflict is checked first and ConflictError is raised.
C3_Rename ==
    RenameCase =>
        /\ Resolves(last.pre, RenamedPath) => Conflict
        /\ (~Resolves(last.pre, LastPath) /\ ~Resolves(last.pre, RenamedPath))
              => NotFound
        /\ last.err # "ok" => tree = last.pre
        /\ RenameSuccess

C3_Witness ==
    /\ RenameCase
    /\ last.err = "ok"
    /\ last.pre[LastPath].kids # <<>>
    /\ last.pre[LastPath].tag

\* C5: delete(p) of a non-empty path raises nothing, changes nothing when p
\* does not resolve, leaves no path with prefix p, and applied again yields
\* the same tree; set(p, v, replace=true) leaves p holding exactly <<v>>,
\* and applied again with the same v yields the same tree.
C5_Idempotent ==
    /\ (last.op = "delete" /\ last.path.islist /\ last.path.items # <<>>) =>
          /\ last.err = "ok"
          /\ ~Resolves(last.pre, LastPath) => tree = last.pre
          /\ \A q \in DOMAIN tree : ~IsPrefix(LastPath, q)
          /\ \A q \in DOMAIN last.pre :
                ~IsPrefix(LastPath, q) => q \in DOMAIN tree
          /\ delete(tree, last.path).err = "ok"
          /\ delete(tree, last.path).t = tree
    /\ (/\ last.op = "set" /\ last.path.islist /\ last.path.items # <<>>
        /\ last.arg # None /\ last.flag) =>
          /\ last.err = "ok"
          /\ tree[LastPath].vals = <<last.arg>>
          /\ set(tree, last.path, last.arg, TRUE).t = tree

C5_Witness ==
    /\ last.op = "delete" /\ last.path.islist /\ last.path.items # <<>>
    /\ Resolves(last.pre, LastPath)
    /\ last.pre[LastPath].kids # <<>>

\* The Python list that names the engine path p.
AsList(p) == List([i \in 1..Len(p) |-> Ident(p[i])])
ChildrenTagged(t, p) ==
    \A c \in Range(t[p].kids) : is_tag(t, AsList(Append(p, c))).ret = TRUE

TagIff ==
    \A path \in PyPaths :
        (IdentPath(path) /\ path.items # <<>>) =>
            LET p == PathStr(path.items)
            IN (is_tag(tree, path).ret = TRUE)
                  <=> (Resolves(tree, Front(p)) /\ tree[Front(p)].tag)

AfterSetTag ==
    (last.op = "set_tag" /\ last.path.islist /\ last.path.items # <<>>) =>
        IF Resolves(last.pre, LastPath)
        THEN /\ last.err = "ok"
             /\ tree[LastPath].tag
             /\ ChildrenTagged(tree, LastPath)
        ELSE NotFound /\ tree = last.pre

\* A set or delete strictly below a tag parent P leaves P a tag parent and
\* every child P then has tagged, those the call created included.
TagKept ==
    \A P \in DOMAIN tree :
        (/\ tree[P].tag
         /\ last'.op \in {"set", "delete"}
         /\ last'.path.islist
         /\ IsPrefix(P, PathStr(last'.path.items))
         /\ Len(PathStr(last'.path.items)) > Len(P)) =>
            /\ P \in DOMAIN tree'
            /\ tree'[P].tag
            /\ ChildrenTagged(tree', P)

\* C9: is_tag(path) is true iff the parent of path's last component is a tag
\* parent; after set_tag(P) on a resolving P every existing child of P is
\* tagged, whether created before or after the call, and stays so under
\* later set/delete calls on children of P; set_tag on a path that does not
\* resolve fails with NotFoundError and marks nothing.
C9_TagSemantics == [](TagIff /\ AfterSetTag) /\ [][TagKept]_vars

\* A child created under P after set_tag(P) is tagged, beside an older one.
C9_Witness ==
    /\ last.op = "set" /\ last.path.islist /\ last.err = "ok"
    /\ Len(LastPath) = 2
    /\ Resolves(last.pre, Front(LastPath))
    /\ last.pre[Front(LastPath)].tag
    /\ ~Resolves(last.pre, LastPath)
    /\ Len(tree[Front(LastPath)].kids) = 2
    /\ is_tag(tree, last.path).ret = TRUE

CopyCase ==
    /\ last.op = "copy"
    /\ IdentPath(last.path) /\ last.path.items # <<>>
    /\ IdentPath(last.arg) /\ last.arg.items # <<>>
OldPath == PathStr(last.path.items)
NewPath == PathStr(last.arg.items)
EngineError == last.err = "ConfigTreeError" /\ last.msg = "engine"

\* The set and delete calls on t whose path lies under p and not under q
\* leave the node at q as it is.
Untouched(t, p, q) ==
    \A path \in PyPaths :
        (/\ IdentPath(path)
         /\ IsPrefix(p, PathStr(path.items))
         /\ ~IsPrefix(q, PathStr(path.items))) =>
            /\ SameNode(delete(t, path).t, q, t, q)
            /\ \A value \in Values \cup {None}, replace \in BOOLEAN :
                  SameNode(set(t, path, value, replace).t, q, t, q)

\* C4 as stated: copy fails with ConflictError whenever new_path exists and
\* with NotFoundError/engine error whenever old_path does not resolve, the
\* tree unmodified; on success the subtree at new_path equals the subtree at
\* old_path, the subtree at old_path is unchanged, and a later mutation
\* under one of the two paths does not change the other.
C4_CopyAsStated ==
    CopyCase =>
        /\ Resolves(last.pre, NewPath) => Conflict
        /\ ~Resolves(last.pre, OldPath) => EngineError
        /\ last.err # "ok" => tree = last.pre
        /\ last.err = "ok" =>
              /\ SameNode(tree, NewPath, tree, OldPath)
              /\ SameNode(tree, OldPath, last.pre, OldPath)
              /\ \A path \in PyPaths :
                    (IdentPath(path) /\ IsPrefix(NewPath, PathStr(path.items)))
                       => SameNode(delete(tree, path).t, OldPath, tree, OldPath)

\* C4 amended: ConflictError whenever new_path exists; the engine's error
\* when old_path does not resolve and new_path does not exist; the tree
\* unmodified when the call fails. On success the subtree at new_path equals
\* the subtree old_path had before the call; when new_path does not lie
\* inside old_path's subtree, the subtree at old_path is unchanged and equal
\* to the one at new_path, and a later set or delete under one of the two
\* paths (and not under the other) does not change the other.
C4_Copy ==
    CopyCase =>
        /\ Resolves(last.pre, NewPath) => Conflict
        /\ (~Resolves(last.pre, OldPath) /\ ~Resolves(last.pre, NewPath))
              => EngineError
        /\ last.err # "ok" => tree = last.pre
        /\ last.err = "ok" =>
              /\ Resolves(last.pre, OldPath)
              /\ ~Resolves(last.pre, NewPath)
              /\ SameNode(tree, NewPath, last.pre, OldPath)
              /\ ~IsPrefix(OldPath, NewPath) =>
                    /\ SameNode(tree, NewPath, tree, OldPath)
                    /\ SameNode(tree, OldPath, last.pre, OldPath)
                    /\ Untouched(tree, NewPath, OldPath)
                    /\ Untouched(tree, OldPath, NewPath)

C4_Witness ==
    /\ CopyCase
    /\ last.err = "ok"
    /\ ~IsPrefix(OldPath, NewPath)
    /\ last.pre[OldPath].kids # <<>>
    /\ tree[NewPath].tag

\* The command lines of a script, its blank lines left out.
CommandLines(text) == SelectSeq(text, LAMBDA ln : ln.op # "")
DeletesFirst(text) ==
    \A i, j \in 1..Len(text) :
        (text[i].op = "delete" /\ text[j].op = "set") => i < j

ExampleL == ConfigTree(<<Stmt(<<"a", "b">>, "v1")>>)
ExampleR ==
    ConfigTree(<<Stmt(<<"a", "b">>, "v2"), Stmt(<<"a", "c">>, "w")>>)
ExampleCase ==
    /\ last.op = "to_commands"
    /\ dt.left = ExampleL
    /\ dt.right = ExampleR
    /\ dt.full = lib_diff_tree(<<>>, ExampleL, ExampleR).t

\* C6: in the script DiffTree.to_commands() returns, every delete line
\* precedes every set line; for L = a{b v1}, R = a{b v2; c w} the script is
\* `delete a b`, `set a b v2`, `set a c w`.
C6_DeletesBeforeSets ==
    /\ last.op = "to_commands" => DeletesFirst(last.ret)
    /\ ExampleCase =>
          CommandLines(last.ret) =
              <<Line("delete", <<"a", "b">>, None),
                Line("set", <<"a", "b">>, "v2"),
                Line("set", <<"a", "c">>, "w")>>

C6_Witness ==
    /\ ExampleCase
    /\ \E i \in 1..Len(last.ret) : last.ret[i].op = "delete"
    /\ \E i \in 1..Len(last.ret) : last.ret[i].op = "set"

\* t and u have the same names, values and tag flags at every path.
StructurallyEqual(t, u) ==
    /\ DOMAIN t = DOMAIN u
    /\ \A q \in DOMAIN t : t[q].vals = u[q].vals /\ t[q].tag = u[q].tag

DiffSelfCase ==
    /\ last.op = "DiffTree"
    /\ last.err = "ok"
    /\ last.l = last.r

\* C8: the DiffTree of (L, L) has empty add and sub branches, an inter
\* branch structurally equal to L (to the part of L under the path, when
\* one is given), an empty delete tree, and its script has no command.
C8_DiffSelf ==
    DiffSelfCase =>
        /\ dt.add = EmptyTree
        /\ dt.sub = EmptyTree
        /\ StructurallyEqual(dt.inter,
                             Restrict(last.l, PathStr(last.path.items)))
        /\ dt.delete = EmptyTree
        /\ CommandLines(DiffTree_to_commands(dt)) = <<>>

C8_Witness ==
    /\ DiffSelfCase
    /\ last.path.items = <<>>
    /\ \E q \in DOMAIN last.l : last.l[q].tag
    /\ \E q \in DOMAIN last.l : last.l[q].vals # <<>>

DiffPathCase ==
    /\ last.op \in {"show_diff", "DiffTree"}
    /\ last.path.islist
    /\ last.path.items # <<>>
InLeft == Resolves(last.l, LastPath)
InRight == Resolves(last.r, LastPath)
DiffLeavesTrees ==
    last'.op \in {"show_diff", "DiffTree"} =>
        treeL' = treeL /\ treeR' = treeR

\* C10 as stated: a diff restricted to a non-empty path fails exactly when
\* the path resolves in neither tree, for show_diff and for DiffTree alike.
C10_DiffPathAsStated ==
    DiffPathCase =>
        /\ (~InLeft /\ ~InRight) => last.err = "ConfigTreeError"
        /\ (InLeft \/ InRight) => last.err = "ok"

\* C10 amended: show_diff fails exactly when the path resolves in neither
\* tree; the construction of a DiffTree fails exactly when the path does not
\* resolve in both, naming the left tree first; neither changes a tree.
C10_DiffPath ==
    /\ [](DiffPathCase =>
            /\ last.op = "show_diff" =>
                  IF ~InLeft /\ ~InRight
                  THEN last.err = "ConfigTreeError"
                  ELSE last.err = "ok"
            /\ last.op = "DiffTree" =>
                  IF ~InLeft
                  THEN last.err = "ConfigTreeError"
                          /\ last.msg = "doesnt-exist-lhs"
                  ELSE IF ~InRight
                  THEN last.err = "ConfigTreeError"
                          /\ last.msg = "doesnt-exist-rhs"
                  ELSE last.err = "ok")
    /\ [][DiffLeavesTrees]_vars

C10_Witness ==
    /\ DiffPathCase
    /\ last.op = "show_diff"
    /\ InLeft /\ ~InRight
    /\ last.flag
    /\ last.err = "ok"
    /\ CommandLines(last.ret) # <<>>

\* No two live objects hold the same address.
NoAlias ==
    \A i, j \in 1..Len(objs) :
        (i # j /\ objs[i].live /\ objs[j].live) => objs[i].addr # objs[j].addr

\* The tree of a live object has not been released, the tree of an object
\* that is gone has been released once, and no tree more than once.
ReleasedOnce ==
    /\ \A a \in 1..Len(heap) : heap[a].released <= 1
    /\ \A o \in 1..Len(objs) :
          heap[objs[o].addr].released = IF objs[o].live THEN 0 ELSE 1

\* A call that changes or destroys an object leaves every other object as
\* it was, with the tree it held; a call that produces trees leaves every
\* object that was there, its operands included.
Mutators == {"set", "delete", "set_tag", "del"}
OthersKept ==
    \A o \in 1..Len(objs) :
        (last'.op \in Mutators => o # last'.obj) =>
            /\ objs'[o] = objs[o]
            /\ heap'[objs[o].addr] = heap[objs[o].addr]

\* What get_subtree and union return is the engine's copy.
Extracted ==
    /\ (last'.op = "get_subtree" /\ last'.err = "ok") =>
          \E w \in BOOLEAN :
              heap'[objs'[Len(objs')].addr].t =
                  get_subtree_copy(heap[objs[last'.obj].addr].t,
                                   PathStr(last'.path.items), w)
    /\ last'.op = "DiffTree" /\ last'.err = "ok" => Len(objs') >= Len(objs) + 5

\* C7: the trees get_subtree, union and a DiffTree produce are held by
\* objects of their own: no two live objects share a tree, a mutation or the
\* destruction of one object leaves every other object and its tree
\* unchanged and usable, and each tree is released exactly once.
C7_Ownership ==
    /\ [](NoAlias /\ ReleasedOnce)
    /\ [][last' # NoCall => (OthersKept /\ Extracted)]_vars

\* A subtree has been taken from an object that was then destroyed.
C7_Witness ==
    /\ last.op = "del"
    /\ last.obj = 1
    /\ \E o \in Live : o > 2 /\ DOMAIN heap[objs[o].addr].t # {<<>>}
    /\ Cardinality(Live) >= 2

====
